---- MODULE Spec2Model ----
(***************************************************************************)
(* Model of GPy's parameter hierarchy                                      *)
(* (GPy/core/parameterization/parameter_core.py): a tree of Parameterizable *)
(* containers and Param leaves sharing numpy buffers, with index           *)
(* registries (constraints, priors), fixed masks, observer lists and the   *)
(* name table.  Every handler is modelled as a function on a state record  *)
(* that follows the Python statements in order; an exception leaves the    *)
(* state as mutated so far and is recorded in the field err.               *)
(***************************************************************************)
EXTENDS Integers, Sequences, FiniteSets, TLC

VARIABLES parent, pindex, params, size, arr, heap, slices,
          rattr, rdata, fixes, obs, added, err, nops, last, call, log, ret,
          cached_inputs, cached_outputs, inputs_changed, name, seen

vars == <<parent, pindex, params, size, arr, heap, slices,
          rattr, rdata, fixes, obs, added, err, nops, last, call, log, ret,
          cached_inputs, cached_outputs, inputs_changed, name, seen>>

\* ---------------------------------------------------------------- bounds
MaxOps == 4

\* ------------------------------------------------------------ the objects
Containers == {"R", "D"}
Leaves == {"A", "B"}
Nodes == Containers \cup Leaves
NodeSeq == <<"R", "D", "A", "B">>
None == "None"
NoIndex == 0 - 1

LeafVals == [A |-> <<1, 2>>, B |-> <<5>>]
WriteVals == {9}
Fill == {0, 7}
Uninit == 1000 - 1

FIXED == FALSE
UNFIXED == TRUE
fixedT == "__fixed__"
Transforms == {"Logexp"}
Priors == {"Gaussian"}
Props == {fixedT} \cup Transforms \cup Priors
Regs == {"constraints", "priors"}
NegInf == -1000
PassThrough == "_pass_through_notify_observers"
Hook == "_parameters_changed_notification"
OnChange == "on_change"
NotifyMark == "notify_observers"
HookPriority == 0 - 100
Watchers == {"B"}
ObsPriorities == {0, 1, NegInf}
NoMin == NegInf - 1
Thresholds == {NoMin, NegInf, HookPriority, 0}
FreeVals == {6}
\* the nodes that are renamed, the names they are renamed to, and those of
\* the names that are attributes of every container
Renamed == {"A", "D"}
NewNames == {"X", "B", "a b", "size"}
Reserved == {"size"}
\* the Cacher object and its callable, the wrapped call, an argument that
\* is not Observable, and the object an item read self[s] returns (a new
\* object at every read)
Cache == "Cacher"
OnCacheChanged == "on_cache_changed"
Operation == "operation"
Plain == "ndarray"
Item == "self[s]"
\* Cacher(operation, limit, ignore_args): argument positions count from 1
Limit == 2
IgnoreArgs == {2}
ArgTuples == {<<"A", None>>, <<"B", None>>, <<"R", None>>, <<"A", Plain>>,
              <<Plain, None>>}
PriorVals == {8}

\* ------------------------------------------------------------- utilities
Min(S) == CHOOSE x \in S : \A y \in S : x <= y
Max(S) == CHOOSE x \in S : \A y \in S : x >= y
OneOf(S) == CHOOSE x \in S : TRUE
Ord(n) == CHOOSE i \in 1..Len(NodeSeq) : NodeSeq[i] = n
InSeq(x, q) == \E i \in 1..Len(q) : q[i] = x
Take(q, k) == SubSeq(q, 1, Min({k, Len(q)}))
InsertAt(q, k, x) == Take(q, k) \o <<x>> \o SubSeq(q, Min({k, Len(q)}) + 1, Len(q))
DeleteAt(q, k) == SubSeq(q, 1, k - 1) \o SubSeq(q, k + 1, Len(q))
Repeat(v, k) == [i \in 1..k |-> v]

RECURSIVE SumSizes(_, _)
SumSizes(sz, q) == IF q = <<>> THEN 0 ELSE sz[Head(q)] + SumSizes(sz, Tail(q))

Fail(s, e) == [s EXCEPT !.err = e]
Ok(s) == s.err = "ok"

\* --------------------------------------------------------- numpy buffers
\* an array is a window [off, off+len) on a heap buffer
ArrVals(h, a) == [i \in 1..a.len |-> h[a.buf][a.off + i]]
\* a[lo:hi] clips to the array
SliceOf(a, lo, hi) ==
    LET l == Min({lo, a.len})
        u == Max({l, Min({hi, a.len})})
    IN [buf |-> a.buf, off |-> a.off + l, len |-> u - l]
\* a[:] = vals broadcasts a single value, otherwise the lengths must agree
AssignOK(a, vals) == Len(vals) = a.len \/ Len(vals) = 1
AssignAll(h, a, vals) ==
    [h EXCEPT ![a.buf] = [i \in 1..Len(@) |->
        IF i > a.off /\ i <= a.off + a.len
        THEN (IF Len(vals) = 1 THEN vals[1] ELSE vals[i - a.off])
        ELSE @[i]]]
\* x.data = b.data needs at least x.nbytes bytes in b
DataOK(x, b) == x.len <= b.len
\* the array left on its own memory (the data pointer not re-pointed)
SetDataKeep(x, b) == x
\* x.data = b.data: x keeps its length and views b's memory from b's start
SetData(x, b) == [buf |-> b.buf, off |-> b.off, len |-> x.len]
\* np.empty(k): a fresh buffer of unspecified contents (the cells stay marked
\* Uninit until the handler returns; Resolve then picks what they hold)
NewBuf(s) == Max({0} \cup DOMAIN s.heap) + 1
Alloc(s, n, k) ==
    LET b == NewBuf(s)
    IN [s EXCEPT !.heap = [i \in DOMAIN s.heap \cup {b} |->
                              IF i = b THEN Repeat(Uninit, k) ELSE s.heap[i]],
                 !.arr[n] = [buf |-> b, off |-> 0, len |-> k]]

\* ------------------------------------------------------- index registries
\* ParameterIndexOperations: property -> set of flat positions.
EmptyReg == [p \in Props |-> {}]
Shifted(S, k) == {i + k : i \in S}
RegAdd(reg, prop, ind) == [reg EXCEPT ![prop] = @ \cup ind]
RegRemove(reg, prop, ind) == [reg EXCEPT ![prop] = @ \ ind]
RegShiftRight(reg, start, amount) ==
    [p \in Props |-> {IF i >= start THEN i + amount ELSE i : i \in reg[p]}]
RegShiftLeft(reg, start, amount) ==
    [p \in Props |-> {IF i >= start THEN i - amount ELSE i : i \in reg[p]}]

\* The constraints / priors attribute of a node: the registry the node owns,
\* or a ParameterIndexOperationsView (base registry, offset, size).
OwnReg(n) == [own |-> TRUE, base |-> n, off |-> 0, size |-> 0]
View(v, offset, sz) == [own |-> FALSE, base |-> v.base, off |-> v.off + offset, size |-> sz]

\* view[prop]: the positions of prop inside the view, in local coordinates
Indices(s, w, v, prop) ==
    LET all == s.rdata[w][v.base][prop]
    IN IF v.own THEN all
       ELSE Shifted({i \in all : i >= v.off /\ i < v.off + v.size}, 0 - v.off)
Items(s, w, v) == [p \in Props |-> Indices(s, w, v, p)]
Properties(s, w, v) == {p \in Props : Indices(s, w, v, p) # {}}
ViewAdd(s, w, v, prop, ind) ==
    [s EXCEPT !.rdata[w][v.base] = RegAdd(@, prop, Shifted(ind, v.off))]
ViewRemoved(s, w, v, prop, ind) ==
    Shifted(s.rdata[w][v.base][prop] \cap Shifted(ind, v.off), 0 - v.off)
ViewRemove(s, w, v, prop, ind) ==
    [s EXCEPT !.rdata[w][v.base] = RegRemove(@, prop, Shifted(ind, v.off))]
ViewShiftRight(s, w, v, start, amount) ==
    [s EXCEPT !.rdata[w][v.base] = RegShiftRight(@, start + v.off, amount)]
ViewShiftLeft(s, w, v, start, amount) ==
    [s EXCEPT !.rdata[w][v.base] = RegShiftLeft(@, start + v.off, amount)]
ViewClear(s, w, v) ==
    LET it == Items(s, w, v)
    IN [s EXCEPT !.rdata[w][v.base] =
           [p \in Props |-> @[p] \ Shifted(it[p], v.off)]]
\* target.update(source, offset): add every item of source, moved by offset
ViewUpdate(s, w, v, it, offset) ==
    [s EXCEPT !.rdata[w][v.base] =
           [p \in Props |-> @[p] \cup Shifted(it[p], offset + v.off)]]

\* --------------------------------------------------------------- observers
\* a new entry put before the entries of its own priority
InsPosTies(q, p) ==
    IF \E i \in 1..Len(q) : p >= q[i].p
    THEN Min({i \in 1..Len(q) : p >= q[i].p}) - 1
    ELSE Len(q)
\* a new entry put behind all the others, whatever its priority
InsPosLast(q, p) == Len(q)
\* Observable._insert_sorted
InsPos(q, p) ==
    IF \E i \in 1..Len(q) : p > q[i].p
    THEN Min({i \in 1..Len(q) : p > q[i].p}) - 1
    ELSE Len(q)
\* an entry also carries t, its rank of registration among the entries of
\* the list (kept for the properties only: no handler reads it)
Stamp(q) == Max({0} \cup {q[i].t + 1 : i \in 1..Len(q)})
insert_sorted(q, p, o, c) ==
    InsertAt(q, InsPos(q, p), [p |-> p, o |-> o, c |-> c, t |-> Stamp(q)])
add_observer(s, n, o, c, p) == [s EXCEPT !.obs[n] = insert_sorted(@, p, o, c)]
RECURSIVE Without(_, _, _)
Without(q, o, c) ==
    IF q = <<>> THEN <<>>
    ELSE IF Head(q).o = o /\ Head(q).c = c THEN Without(Tail(q), o, c)
         ELSE <<Head(q)>> \o Without(Tail(q), o, c)
remove_observer(s, n, o, c) == [s EXCEPT !.obs[n] = Without(@, o, c)]

\* ------------------------------------------------------------ the hierarchy
has_parent(s, n) == s.parent[n] # None
Children(s, n) == {s.params[n][i] : i \in 1..Len(s.params[n])}
\* nodes reachable from n through child lists (n excluded unless on a cycle)
RECURSIVE ReachK(_, _, _)
ReachK(s, S, k) ==
    IF k = 0 THEN S
    ELSE ReachK(s, S \cup UNION {Children(s, m) : m \in S}, k - 1)
Below(s, n) == ReachK(s, Children(s, n), Cardinality(Nodes))
\* the parent chain of n, n excluded
RECURSIVE ChainK(_, _, _)
ChainK(s, n, k) ==
    IF k = 0 \/ s.parent[n] = None THEN {}
    ELSE {s.parent[n]} \cup ChainK(s, s.parent[n], k - 1)
Ancestors(s, n) == ChainK(s, n, Cardinality(Nodes))
ParentCyclic(s, n) == n \in Ancestors(s, n)
RECURSIVE highest_parent(_, _)
highest_parent(s, n) ==
    IF s.parent[n] = None THEN n ELSE highest_parent(s, s.parent[n])

\* Parameterized._offset_for: the start of param's slice inside c
RECURSIVE offset_for(_, _, _)
offset_for(s, c, p) ==
    IF s.parent[p] = None THEN 0
    ELSE IF s.parent[p] = c THEN s.slices[c][s.pindex[p] + 1]
    ELSE offset_for(s, c, s.parent[p]) + offset_for(s, s.parent[p], p)
raveled_index(s, n) == 0..(s.size[n] - 1)
raveled_index_for(s, c, p) == Shifted(raveled_index(s, p), offset_for(s, c, p))

\* ------------------------------------------------- shared memory re-slicing
\* OptimizationHandlable._propagate_param_grad, from child number i on
\* (gradient arrays are handled by the same statements and are left out)
RECURSIVE propagate_param_grad(_, _, _, _, _)
propagate_param_grad(s, n, parray, i, pi_old_size) ==
    IF ~Ok(s) \/ i > Len(s.params[n]) THEN s
    ELSE
      LET pi == s.params[n][i]
          lo == pi_old_size
          hi == pi_old_size + s.size[pi]
          dst == SliceOf(s.arr[n], lo, hi)
          src == ArrVals(s.heap, s.arr[pi])
          tgt == SliceOf(parray, lo, hi)
      IN IF ~AssignOK(dst, src) THEN Fail(s, "ValueError")
         ELSE IF ~DataOK(s.arr[pi], tgt) THEN Fail(s, "AttributeError")
         ELSE
           LET s1 == [s EXCEPT !.heap = AssignAll(@, dst, src),
                               !.arr[pi] = SetData(@, tgt)]
               s2 == propagate_param_grad(s1, pi, tgt, 1, 0)
           IN propagate_param_grad(s2, n, parray, i + 1, hi)

\* adjust_name_for_printing: the characters that cannot be part of an
\* attribute name are replaced (of the names used here only the blank)
adjust_name_for_printing(nm) == IF nm = "a b" THEN "a_b" ELSE nm
\* the attribute table of a container, as far as _added_names_ goes: pairs
\* <<pname, param>>, at most one for a name
Named(tab, pname) == {e \in tab : e[1] = pname}
\* Parameterizable._add_parameter_name: a name that is an attribute of the
\* container (in dir(self), not in _added_names_) is left alone; an added
\* name that stands for another parameter is taken over
add_parameter_name(s, c, p) ==
    IF adjust_name_for_printing(s.name[p]) \in Reserved THEN s
    ELSE [s EXCEPT !.added[c] =
            (@ \ Named(@, adjust_name_for_printing(s.name[p])))
                \cup {<<adjust_name_for_printing(s.name[p]), p>>}]

\* the loop body that sets the parent and gives every child index 0
set_parent_first(s, c, p, i) == [s EXCEPT !.parent[p] = c, !.pindex[p] = 0]
\* _connect_parameters, loop body: p._parent_ = self; p._parent_index_ = i
set_parent(s, c, p, i) == [s EXCEPT !.parent[p] = c, !.pindex[p] = i - 1]
\* _connect_parameters, loop body: the child's values are copied into the
\* slice, the child is re-pointed at it, the slice and the name are recorded
connect_child(s, c, p, pslice, old_size) ==
    IF ~Ok(s) THEN s
    ELSE IF ~AssignOK(pslice, ArrVals(s.heap, s.arr[p])) THEN Fail(s, "ValueError")
    ELSE IF ~DataOK(s.arr[p], pslice) THEN Fail(s, "AttributeError")
    ELSE add_parameter_name(
             [s EXCEPT !.heap = AssignAll(@, pslice, ArrVals(s.heap, s.arr[p])),
                       !.arr[p] = SetData(@, pslice),
                       !.slices[c] = Append(@, old_size)],
             c, p)
\* _connect_parameters, loop body after the parent was set: the child's own
\* children are connected first (on a cyclic hierarchy that recursion never
\* ends and Python gives up with its recursion-depth error)
connect_step(s, c, p, old_size) ==
    LET pslice == SliceOf(s.arr[c], old_size, old_size + s.size[p])
    IN IF ParentCyclic(s, p) THEN Fail(s, "RecursionDepth")
       ELSE connect_child(propagate_param_grad(s, p, pslice, 1, 0), c, p, pslice, old_size)
\* the loop of Parameterizable._connect_parameters, from child number i on
RECURSIVE connect_loop(_, _, _, _)
connect_loop(s, c, i, old_size) ==
    IF ~Ok(s) \/ i > Len(s.params[c]) THEN s
    ELSE connect_loop(
             connect_step(set_parent(s, c, s.params[c][i], i), c, s.params[c][i], old_size),
             c, i + 1, old_size + s.size[s.params[c][i]])

\* Parameterizable._connect_parameters
connect_parameters(s, c) ==
    IF ~Ok(s) \/ Len(s.params[c]) < 1 THEN s
    ELSE connect_loop([Alloc(s, c, s.size[c]) EXCEPT !.slices[c] = <<>>], c, 1, 0)

\* Parameterizable._remove_parameter_name(None, pname)
remove_name(s, c, pname) ==
    connect_parameters([s EXCEPT !.added[c] = @ \ Named(@, pname)], c)
\* Parameterizable._remove_parameter_name(param)
remove_parameter_name(s, c, p) ==
    remove_name(s, c, adjust_name_for_printing(s.name[p]))
\* Parameterizable._name_changed
name_changed(s, c, p, old_name) ==
    IF Ok(remove_name(s, c, adjust_name_for_printing(old_name)))
    THEN add_parameter_name(remove_name(s, c, adjust_name_for_printing(old_name)), c, p)
    ELSE remove_name(s, c, adjust_name_for_printing(old_name))
\* Nameable.name = nm
set_name(s, n, nm) ==
    IF has_parent(s, n)
    THEN name_changed([s EXCEPT !.name[n] = nm], s.parent[n], n, s.name[n])
    ELSE [s EXCEPT !.name[n] = nm]

\* ------------------------------------------------------------- fixed masks
has_fixes(s, n) == s.fixes[n] # <<>>
AllUnfixed(m) == \A i \in 1..Len(m) : m[i] = UNFIXED
\* mask[index] = value, numpy index rules (negative positions wrap)
IndexOK(m, ind) == \A i \in ind : i < Len(m) /\ i >= 0 - Len(m)
Put(m, ind, v) ==
    [i \in 1..Len(m) |-> IF (i - 1) \in ind \/ (i - 1 - Len(m)) \in ind THEN v ELSE m[i]]
Degrade(m) == IF AllUnfixed(m) THEN <<>> ELSE m
Ones(s, n) == IF has_fixes(s, n) THEN s.fixes[n] ELSE Repeat(UNFIXED, s.size[n])
\* Constrainable._set_fixed
set_fixed(s, n, ind) ==
    IF ~Ok(s) THEN s
    ELSE IF ~IndexOK(Ones(s, n), ind) THEN Fail(s, "IndexError")
    ELSE [s EXCEPT !.fixes[n] = Degrade(Put(Ones(s, n), ind, FIXED))]
\* Constrainable._set_unfixed
set_unfixed(s, n, ind) ==
    IF ~Ok(s) THEN s
    ELSE IF ~IndexOK(Ones(s, n), ind) THEN Fail(s, "IndexError")
    ELSE [s EXCEPT !.fixes[n] = Degrade(Put(Ones(s, n), ind, UNFIXED))]
\* Constrainable._connect_fixes
connect_fixes(s, n) ==
    IF ~Ok(s) THEN s
    ELSE
      LET fixed_indices == Indices(s, "constraints", s.rattr["constraints"][n], fixedT)
          ones == Repeat(UNFIXED, s.size[n])
      IN IF fixed_indices = {} THEN [s EXCEPT !.fixes[n] = <<>>]
         ELSE IF ~IndexOK(ones, fixed_indices) THEN Fail(s, "IndexError")
         ELSE [s EXCEPT !.fixes[n] = Put(ones, fixed_indices, FIXED)]

\* ------------------------------------------------- parent change / detach
\* Constrainable._parent_changed
RECURSIVE parent_changed(_, _, _)
RECURSIVE parent_changed_all(_, _, _, _)
parent_changed(s, p, par) ==
    IF ~Ok(s) THEN s
    ELSE
      LET off == offset_for(s, par, p)
      IN parent_changed_all(
             [s EXCEPT
                !.rattr["constraints"][p] = View(s.rattr["constraints"][par], off, s.size[p]),
                !.rattr["priors"][p] = View(s.rattr["priors"][par], off, s.size[p]),
                !.fixes[p] = <<>>],
             s.params[p], 1, par)
parent_changed_all(s, q, i, par) ==
    IF i > Len(q) THEN s
    ELSE parent_changed_all(parent_changed(s, q[i], par), q, i + 1, par)
\* Parameterizable._notify_parent_change
notify_parent_change(s, c) ==
    IF ~Ok(s) THEN s ELSE parent_changed_all(s, s.params[c], 1, c)

\* Constrainable._disconnect_parent (constr = None)
disconnect_parent(s, p) ==
    IF ~Ok(s) THEN s
    ELSE
      LET v == s.rattr["constraints"][p]
          constr == Items(s, "constraints", v)
      IN notify_parent_change(
             connect_fixes(
                 [ViewClear(s, "constraints", v) EXCEPT
                     !.rdata["constraints"][p] = constr,
                     !.rattr["constraints"][p] = OwnReg(p),
                     !.parent[p] = None,
                     !.pindex[p] = NoIndex],
                 p),
             p)

\* ------------------------------------------------- add / remove parameter
\* remove_parameter: _connect_fixes(); _connect_parameters();
\* _notify_parent_change(), on self and then on each ancestor
reslice(s, c) ==
    notify_parent_change(connect_parameters(connect_fixes(s, c), c), c)
\* the ancestor loop at the end of remove_parameter
RECURSIVE reslice_ancestors(_, _)
RECURSIVE next_ancestor(_, _)
next_ancestor(s, par) == reslice_ancestors(s, s.parent[par])
reslice_ancestors(s, par) ==
    IF ~Ok(s) \/ par = None THEN s
    ELSE next_ancestor(reslice(s, par), par)

\* remove_parameter: the size is reduced, the child leaves the list and is
\* disconnected
detach_child(s, c, param) ==
    IF ~Ok(s) THEN s
    ELSE disconnect_parent(
             [s EXCEPT !.size[c] = @ - s.size[param],
                       !.params[c] = DeleteAt(@, s.pindex[param] + 1)],
             param)
\* remove_parameter: the pass-through observer is removed, the constraints
\* are shifted left, self and the ancestors are re-sliced
close_gap(s, c, param, start) ==
    IF ~Ok(s) THEN s
    ELSE next_ancestor(
             reslice(ViewShiftLeft(remove_observer(s, param, c, PassThrough),
                                   "constraints", s.rattr["constraints"][c],
                                   start, s.size[param]),
                     c),
             c)
\* remove_parameter that takes param out of whatever parent it has
remove_parameter_anywhere(s, c, param) ==
    IF ~Ok(s) THEN s
    ELSE IF ~has_parent(s, param) THEN Fail(s, "RuntimeError")
    ELSE close_gap(detach_child(remove_parameter_name(s, s.parent[param], param),
                                s.parent[param], param),
                   s.parent[param], param,
                   SumSizes(s.size, Take(s.params[s.parent[param]], s.pindex[param])))
\* Parameterizable.remove_parameter
remove_parameter(s, c, param) ==
    IF ~Ok(s) THEN s
    ELSE IF ~InSeq(param, s.params[c]) THEN Fail(s, "RuntimeError")
    ELSE close_gap(detach_child(remove_parameter_name(s, c, param), c, param),
                   c, param,
                   SumSizes(s.size, Take(s.params[c], s.pindex[param])))

\* add_parameter: param's registry entries are merged into self's registries
\* and param is put into the child list
place_parameter(s, c, param, index) ==
    IF ~Ok(s) THEN s
    ELSE
      LET cit == Items(s, "constraints", s.rattr["constraints"][param])
          pit == Items(s, "priors", s.rattr["priors"][param])
          cv == s.rattr["constraints"][c]
          pv == s.rattr["priors"][c]
          start == SumSizes(s.size, Take(s.params[c], index))
      IN IF index = NoIndex
         THEN [ViewUpdate(ViewUpdate(s, "constraints", cv, cit, s.size[c]),
                          "priors", pv, pit, s.size[c])
                 EXCEPT !.params[c] = Append(@, param)]
         ELSE [ViewUpdate(
                 ViewUpdate(
                   ViewShiftRight(
                     ViewShiftRight(s, "constraints", cv, start, s.size[param]),
                     "priors", pv, start, s.size[param]),
                   "constraints", cv, cit, start),
                 "priors", pv, pit, start)
                 EXCEPT !.params[c] = InsertAt(@, index, param)]
\* the pass-through observer registered at the default priority
link_parameter_default(s, c, param) ==
    IF ~Ok(s) THEN s
    ELSE connect_fixes(
             notify_parent_change(
                 connect_parameters(
                     [add_observer(s, param, c, PassThrough, 0)
                        EXCEPT !.size[c] = @ + s.size[param]],
                     c),
                 c),
             c)
\* add_parameter: the pass-through observer, the size, and the re-slicing of
\* self
link_parameter(s, c, param) ==
    IF ~Ok(s) THEN s
    ELSE connect_fixes(
             notify_parent_change(
                 connect_parameters(
                     [add_observer(s, param, c, PassThrough, NegInf)
                        EXCEPT !.size[c] = @ + s.size[param]],
                     c),
                 c),
             c)
\* add_parameter: the walk that looks at param's direct parent only
in_hierarchy_direct(s, c, param) == has_parent(s, param) /\ s.parent[param] = c
\* add_parameter: param has a parent and self is on param's parent chain
in_hierarchy(s, c, param) == has_parent(s, param) /\ c \in Ancestors(s, param)
\* the branch of add_parameter taken when param is not a child of c yet
add_new_parameter(s, c, param, index) ==
    IF ~Ok(s) THEN s
    ELSE IF in_hierarchy(s, c, param)
    THEN Fail(s, "HierarchyError")
    ELSE link_parameter(
             place_parameter(
                 IF has_parent(s, param)
                 THEN remove_parameter(s, s.parent[param], param)
                 ELSE s,
                 c, param, index),
             c, param)

\* add_parameter whose first branch does not look at index
add_parameter_readd(s, c, param, index) ==
    IF InSeq(param, s.params[c])
    THEN add_new_parameter(remove_parameter(s, c, param), c, param, index)
    ELSE add_new_parameter(s, c, param, index)
\* Parameterizable.add_parameter
add_parameter(s, c, param, index) ==
    IF InSeq(param, s.params[c]) /\ index # NoIndex
    THEN add_new_parameter(remove_parameter(s, c, param), c, param, index)
    ELSE IF ~InSeq(param, s.params[c])
    THEN add_new_parameter(s, c, param, index)
    ELSE Fail(s, "RuntimeError")

\* ------------------------------------------------------ constrain / fix
\* Constrainable._remove_from_index_operations with no property named
RECURSIVE remove_props(_, _, _, _)
remove_props(s, w, n, todo) ==
    IF ~Ok(s) \/ todo = {} THEN s
    ELSE
      LET t == CHOOSE x \in todo : TRUE
          v == s.rattr[w][n]
          unconstrained == ViewRemoved(s, w, v, t, raveled_index(s, n))
          s1 == ViewRemove(s, w, v, t, raveled_index(s, n))
          s2 == IF t = fixedT
                THEN set_unfixed(s1, highest_parent(s1, n), unconstrained)
                ELSE s1
      IN remove_props(s2, w, n, todo \ {t})
remove_from_index_operations(s, w, n) ==
    remove_props(s, w, n, Properties(s, w, s.rattr[w][n]))
\* Constrainable._add_to_index_operations
add_to_index_operations(s, w, n, what) ==
    IF ~Ok(s) THEN s
    ELSE ViewAdd(s, w, s.rattr[w][n], what, raveled_index(s, n))

\* Transformation.initialize of the positive transform: negative values are
\* mirrored
Abs(x) == IF x < 0 THEN 0 - x ELSE x
initialize(vals) == [i \in 1..Len(vals) |-> Abs(vals[i])]

\* Constrainable.constrain
constrain(s, n, transform) ==
    LET s1 == IF transform \in Transforms
              THEN [s EXCEPT !.heap = AssignAll(@, s.arr[n],
                                         initialize(ArrVals(s.heap, s.arr[n])))]
              ELSE s
    IN add_to_index_operations(
           remove_from_index_operations(s1, "constraints", n),
           "constraints", n, transform)
\* constrain_fixed: rav_i = self._highest_parent_._raveled_index_for(self);
\* self._highest_parent_._set_fixed(rav_i)
fix_at_root(s, n) ==
    set_fixed(s, highest_parent(s, n), raveled_index_for(s, highest_parent(s, n), n))
\* Constrainable.constrain_fixed (value = None)
constrain_fixed(s, n) == fix_at_root(constrain(s, n, fixedT), n)
\* what _remove_from_index_operations returns when no property is named:
\* the positions of n that had one
Removed(s, w, n) ==
    UNION {ViewRemoved(s, w, s.rattr[w][n], t, raveled_index(s, n)) :
              t \in Properties(s, w, s.rattr[w][n])}
\* Constrainable._remove_from_index_operations(which, what): the local
\* transforms is bound only when what is empty, and the loop header reads it
remove_what_from_index_operations(s, w, n, what) ==
    IF ~Ok(s) THEN s
    ELSE IF what = {}
    THEN [remove_from_index_operations(s, w, n) EXCEPT !.ret = Removed(s, w, n)]
    ELSE Fail(s, "UnboundLocalError")
\* Constrainable.unconstrain(*transforms)
unconstrain(s, n, what) == remove_what_from_index_operations(s, "constraints", n, what)
\* unconstrain_fixed: self._highest_parent_._set_unfixed(unconstrained)
unfix_at_root(s, n) == set_unfixed(s, highest_parent(s, n), s.ret)
\* Constrainable.unconstrain_fixed
unconstrain_fixed(s, n) == unfix_at_root(unconstrain(s, n, {fixedT}), n)

\* Constrainable.set_prior
set_prior(s, n, prior) ==
    add_to_index_operations(
        remove_from_index_operations(s, "priors", n), "priors", n, prior)

\* ------------------------------------------------------------ notification
\* every callback that is invoked is entered in the log of the running call,
\* and so is every call of notify_observers (o = None, c = NotifyMark)
Event(n, o, c, p) == [at |-> n, o |-> o, c |-> c, p |-> p]
\* (seen keeps the values every node had when the first callable of the
\* call was invoked)
Ran(l) == {i \in 1..Len(l) : l[i].c \notin {NotifyMark, Operation}}
logged(s, n, e) ==
    [s EXCEPT !.log = Append(@, Event(n, e.o, e.c, e.p)),
              !.seen = IF Ran(s.log) = {}
                       THEN [m \in Nodes |-> ArrVals(s.heap, s.arr[m])] ELSE @]
entered(s, n, m) == [s EXCEPT !.log = Append(@, Event(n, None, NotifyMark, m))]

\* Cacher.on_cache_changed(arg): flags the entries holding the object arg
on_cache_changed(s, arg) ==
    [s EXCEPT !.inputs_changed =
        [i \in 1..Min({Len(s.cached_inputs), Len(s.inputs_changed)}) |->
            \/ \E j \in 1..Len(s.cached_inputs[i]) : s.cached_inputs[i][j] = arg
            \/ s.inputs_changed[i]]]

RECURSIVE notify_observers(_, _, _, _)
RECURSIVE notify_from(_, _, _, _, _)
\* a pass-through entry that notifies the subscribing parent twice
callback_twice(s, e, which) ==
    IF e.c = PassThrough
    THEN notify_observers(notify_observers(s, e.o, which, NoMin),
                          e.o, which, NoMin)
    ELSE IF e.c = OnCacheChanged THEN on_cache_changed(s, which)
    ELSE s
\* the callable of an entry: Parameterizable._pass_through_notify_observers
\* notifies the observers of the parent that subscribed it; 
\* _parameters_changed_notification runs parameters_changed (which is pass)
\* and a watcher's callback only looks at the value
callback(s, e, which) ==
    IF e.c = PassThrough THEN notify_observers(s, e.o, which, NoMin)
    ELSE IF e.c = OnCacheChanged THEN on_cache_changed(s, which)
    ELSE s
\* the loop stopping only below min_priority
notify_from_below(s, n, i, which, m) ==
    IF ~Ok(s) \/ i > Len(s.obs[n]) THEN s
    ELSE IF m # NoMin /\ s.obs[n][i].p < m THEN s
    ELSE notify_from(callback(logged(s, n, s.obs[n][i]), s.obs[n][i], which),
                     n, i + 1, which, m)
\* the loop of Observable.notify_observers from entry i on: with a
\* min_priority it stops at the first entry with p <= min_priority
notify_from(s, n, i, which, m) ==
    IF ~Ok(s) \/ i > Len(s.obs[n]) THEN s
    ELSE IF m # NoMin /\ s.obs[n][i].p <= m THEN s
    ELSE notify_from(callback(logged(s, n, s.obs[n][i]), s.obs[n][i], which),
                     n, i + 1, which, m)
\* Observable.notify_observers(which, min_priority)
\* (which = None stands for the notifying object itself)
notify_observers(s, n, which, m) ==
    IF ~Ok(s) THEN s
    ELSE notify_from(entered(s, n, m), n, 1, IF which = None THEN n ELSE which, m)

\* OptimizationHandlable._trigger_params_changed
RECURSIVE trigger_params_changed(_, _, _)
RECURSIVE trigger_children(_, _, _)
trigger_children(s, n, i) ==
    IF ~Ok(s) \/ i > Len(s.params[n]) THEN s
    ELSE trigger_children(trigger_params_changed(s, s.params[n][i], FALSE), n, i + 1)
\* every node of the cascade notifies without a threshold
trigger_params_changed_all(s, n, trigger_parent) ==
    notify_observers(trigger_children(s, n, 1), n, None, NoMin)
\* the node notifies its own observers before its children are triggered
trigger_params_changed_self_first(s, n, trigger_parent) ==
    trigger_children(
        notify_observers(s, n, None, IF trigger_parent THEN NoMin ELSE NegInf), n, 1)
trigger_params_changed(s, n, trigger_parent) ==
    notify_observers(trigger_children(s, n, 1), n, None,
                     IF trigger_parent THEN NoMin ELSE NegInf)

\* Logexp.f and Logexp.finv on the integers: a one-to-one map onto the
\* positive values and its inverse, with 0 the image of minus infinity
f(x) == IF x = NegInf THEN 0 ELSE IF x >= 0 THEN 2 * x + 1 ELSE 0 - 2 * x
finv(y) == IF y = 0 THEN NegInf
           ELSE IF y % 2 = 1 THEN (y - 1) \div 2 ELSE 0 - (y \div 2)
\* np.put(a, ind, c.f(a[ind])) for the positions ind of one transform
PutF(h, a, ind) ==
    [h EXCEPT ![a.buf] = [i \in 1..Len(@) |->
        IF i > a.off /\ i <= a.off + a.len /\ (i - a.off - 1) \in ind
        THEN f(@[i]) ELSE @[i]]]
\* OptimizationHandlable.untransform
RECURSIVE untransform_from(_, _, _)
untransform_from(s, n, ts) ==
    IF ~Ok(s) \/ ts = {} THEN s
    ELSE untransform_from(
           (IF \E i \in Indices(s, "constraints", s.rattr["constraints"][n], OneOf(ts)) :
                    i >= s.arr[n].len
            THEN Fail(s, "IndexError")
            ELSE [s EXCEPT !.heap = PutF(@, s.arr[n],
                     Indices(s, "constraints", s.rattr["constraints"][n], OneOf(ts)))]),
           n, ts \ {OneOf(ts)})
untransform(s, n) == untransform_from(s, n, Transforms)

\* a[mask] = vals: the cells where the mask is UNFIXED take vals in order
Free(mask) == {i \in 1..Len(mask) : mask[i] = UNFIXED}
Rank(mask, i) == Cardinality({j \in Free(mask) : j <= i})
MaskAssignOK(a, mask, vals) ==
    Len(mask) = a.len /\ (Len(vals) = Cardinality(Free(mask)) \/ Len(vals) = 1)
MaskAssign(h, a, mask, vals) ==
    [h EXCEPT ![a.buf] = [i \in 1..Len(@) |->
        IF i > a.off /\ i <= a.off + a.len /\ (i - a.off) \in Free(mask)
        THEN (IF Len(vals) = 1 THEN vals[1] ELSE vals[Rank(mask, i - a.off)])
        ELSE @[i]]]
\* the first two statements of _set_params_transformed
assign_free(s, n, p) ==
    IF ~Ok(s) THEN s
    ELSE IF has_fixes(s, n)
    THEN (IF MaskAssignOK(s.arr[n], s.fixes[n], p)
          THEN [s EXCEPT !.heap = MaskAssign(@, s.arr[n], s.fixes[n], p)]
          ELSE Fail(s, "ValueError"))
    ELSE (IF AssignOK(s.arr[n], p)
          THEN [s EXCEPT !.heap = AssignAll(@, s.arr[n], p)]
          ELSE Fail(s, "ValueError"))
\* OptimizationHandlable._set_params_transformed
set_params_transformed(s, n, p) ==
    trigger_params_changed(untransform(assign_free(s, n, p), n), n, TRUE)
\* the length of the vector _get_params_transformed returns
FreeLen(s, n) ==
    IF has_fixes(s, n) THEN Cardinality(Free(s.fixes[n])) ELSE s.arr[n].len

\* OptimizationHandlable._get_params_transformed: the positions of all
\* transforms of n and the vector it returns (p[ind] and p[self._fixes_]
\* raise IndexError on a position or a mask that does not fit the array)
TransformInd(s, n) ==
    UNION {Indices(s, "constraints", s.rattr["constraints"][n], t) : t \in Transforms}
GetOK(s, n) ==
    /\ \A i \in TransformInd(s, n) : i < s.arr[n].len
    /\ has_fixes(s, n) => Len(s.fixes[n]) = s.arr[n].len
Transformed(s, n) ==
    [i \in 1..s.arr[n].len |->
        IF (i - 1) \in TransformInd(s, n)
        THEN finv(s.heap[s.arr[n].buf][s.arr[n].off + i])
        ELSE s.heap[s.arr[n].buf][s.arr[n].off + i]]
RECURSIVE Masked(_, _)
Masked(p, mask) ==
    IF p = <<>> THEN <<>>
    ELSE IF Head(mask) = UNFIXED THEN <<Head(p)>> \o Masked(Tail(p), Tail(mask))
    ELSE Masked(Tail(p), Tail(mask))
get_params_transformed(s, n) ==
    IF has_fixes(s, n) THEN Masked(Transformed(s, n), s.fixes[n]) ELSE Transformed(s, n)
\* n._set_params_transformed(n._get_params_transformed())
round_trip(s, n) ==
    IF ~GetOK(s, n) THEN Fail(s, "IndexError")
    ELSE set_params_transformed(s, n, get_params_transformed(s, n))

\* OptimizationHandlable._size_transformed
size_transformed(s, n) ==
    s.size[n] - Cardinality(Indices(s, "constraints", s.rattr["constraints"][n], fixedT))
\* the positions of all priors of n
PriorInd(s, n) ==
    UNION {Indices(s, "priors", s.rattr["priors"][n], p) : p \in Priors}
\* OptimizationHandlable.randomize: a vector of _size_transformed() draws x,
\* with a draw from the prior put at every position that has one (np.put
\* raises IndexError on a position outside x)
randomize(s, n, x, r) ==
    IF size_transformed(s, n) < 0 THEN Fail(s, "ValueError")
    ELSE IF \E i \in PriorInd(s, n) : i >= size_transformed(s, n)
    THEN Fail(s, "IndexError")
    ELSE set_params_transformed(s, n,
            [i \in 1..size_transformed(s, n) |->
                IF (i - 1) \in PriorInd(s, n) THEN r ELSE x])

\* ObservableArray.__setitem__ on a leaf: the write, then the notification
setitem(s, n, i, v) ==
    notify_observers([s EXCEPT !.heap[s.arr[n].buf][s.arr[n].off + i] = v],
                     n, Item, NoMin)

\* ------------------------------------------------------------ the cache
isObservable(a) == a \in Nodes
\* the wrapped pure function: the values of its arguments, one by one
Value(s, a) == IF a \in Nodes THEN ArrVals(s.heap, s.arr[a]) ELSE <<>>
operation(s, args) == [i \in 1..Len(args) |-> Value(s, args[i])]
\* one invocation of the wrapped function, its result returned
invoked(s, args) ==
    [s EXCEPT !.log = Append(@, Event(Cache, None, Operation, 0)),
              !.ret = operation(s, args)]
\* the arguments that are not ignored and not None, each object once
observable_args(args) ==
    {args[i] : i \in (1..Len(args)) \ IgnoreArgs} \ {None}
FirstAt(args, i) ==
    /\ i \notin IgnoreArgs /\ args[i] # None
    /\ \A j \in (1..(i - 1)) \ IgnoreArgs : args[j] # args[i]
\* all(a is b for a, b in izip_longest(args, cached_i)): the shorter tuple
\* is padded with None
Padded(q, k) == [i \in 1..k |-> IF i <= Len(q) THEN q[i] ELSE None]
Same(args, cached_i) ==
    Padded(args, Max({Len(args), Len(cached_i)}))
        = Padded(cached_i, Max({Len(args), Len(cached_i)}))
Hits(s, args) == {i \in 1..Len(s.cached_inputs) : Same(args, s.cached_inputs[i])}
\* an entry that is recomputed at every hit
hit_recomputed(s, args, i) ==
    [invoked(s, args) EXCEPT !.cached_outputs[i] = operation(s, args),
                             !.inputs_changed[i] = FALSE]
\* the cached entry i answers, recomputed first if its flag is set
hit(s, args, i) ==
    IF s.inputs_changed[i]
    THEN [invoked(s, args) EXCEPT !.cached_outputs[i] = operation(s, args),
                                  !.inputs_changed[i] = FALSE]
    ELSE [s EXCEPT !.ret = s.cached_outputs[i]]
\* [a.remove_observer(self, self.on_cache_changed) for a in args_ if a is
\* not None]: an object that is not Observable has no remove_observer
RECURSIVE deregister(_, _, _)
deregister(s, args, i) ==
    IF ~Ok(s) \/ i > Len(args) THEN s
    ELSE IF args[i] = None THEN deregister(s, args, i + 1)
    ELSE IF ~isObservable(args[i]) THEN Fail(s, "AttributeError")
    ELSE deregister(remove_observer(s, args[i], Cache, OnCacheChanged), args, i + 1)
pop_rest(s) ==
    IF ~Ok(s) THEN s
    ELSE [s EXCEPT !.inputs_changed = Tail(@), !.cached_outputs = Tail(@)]
\* at full capacity the first entry goes
evict(s) ==
    IF Len(s.cached_inputs) # Limit THEN s
    ELSE pop_rest(deregister([s EXCEPT !.cached_inputs = Tail(@)],
                             Head(s.cached_inputs), 1))
\* [a.add_observer(self, self.on_cache_changed) for a in observable_args]
RECURSIVE subscribe(_, _, _)
subscribe(s, args, i) ==
    IF i > Len(args) THEN s
    ELSE IF FirstAt(args, i)
    THEN subscribe(add_observer(s, args[i], Cache, OnCacheChanged, 0), args, i + 1)
    ELSE subscribe(s, args, i + 1)
store(s, args) ==
    IF ~Ok(s) THEN s
    ELSE subscribe([invoked(s, args) EXCEPT
                       !.cached_inputs = Append(@, args),
                       !.cached_outputs = Append(@, operation(s, args)),
                       !.inputs_changed = Append(@, FALSE)], args, 1)
\* Cacher.__call__(*args)
cached_call(s, args) ==
    IF \E a \in observable_args(args) : ~isObservable(a) THEN invoked(s, args)
    ELSE IF Hits(s, args) # {} THEN hit(s, args, Min(Hits(s, args)))
    ELSE store(evict(s), args)
\* the two comprehensions of Cacher.reset over the Observable arguments of
\* every entry
RECURSIVE forget(_, _, _, _)
forget(s, c, i, j) ==
    IF i > Len(s.cached_inputs) THEN s
    ELSE IF j > Len(s.cached_inputs[i]) THEN forget(s, c, i + 1, 1)
    ELSE IF isObservable(s.cached_inputs[i][j])
    THEN forget(remove_observer(s, s.cached_inputs[i][j], Cache, c), c, i, j + 1)
    ELSE forget(s, c, i, j + 1)
\* Cacher.reset(obj)
reset(s) ==
    [forget(forget(s, OnCacheChanged, 1, 1), "reset", 1, 1) EXCEPT
        !.cached_inputs = <<>>, !.cached_outputs = <<>>, !.inputs_changed = <<>>]

\* ------------------------------------------------------------ state record
St == [parent |-> parent, pindex |-> pindex, params |-> params, size |-> size,
       arr |-> arr, heap |-> heap, slices |-> slices, rattr |-> rattr,
       rdata |-> rdata, fixes |-> fixes, obs |-> obs, added |-> added,
       err |-> "ok", log |-> <<>>, ret |-> {},
       cached_inputs |-> cached_inputs, cached_outputs |-> cached_outputs,
       inputs_changed |-> inputs_changed, name |-> name,
       seen |-> [n \in Nodes |-> <<>>]]

\* Unreachable buffers and registries are dropped and the live buffers are
\* named after the first node that views them (object identity only).
BufOwner(s, b) == Min({Ord(n) : n \in {m \in Nodes : s.arr[m].buf = b}})
Collect(s) ==
    LET live == {s.arr[n].buf : n \in Nodes}
        newheap == [k \in 1..Len(NodeSeq) |->
                      IF \E b \in live : BufOwner(s, b) = k
                      THEN s.heap[CHOOSE b \in live : BufOwner(s, b) = k]
                      ELSE <<>>]
        newarr == [n \in Nodes |-> [s.arr[n] EXCEPT !.buf = BufOwner(s, s.arr[n].buf)]]
        newrdata == [w \in Regs |-> [n \in Nodes |->
                      IF \E m \in Nodes : s.rattr[w][m].base = n
                      THEN s.rdata[w][n] ELSE EmptyReg]]
    IN [s EXCEPT !.heap = newheap, !.arr = newarr, !.rdata = newrdata]

\* what the uninitialised cells that are still visible turn out to hold
Resolve(s, fill) ==
    [s EXCEPT !.heap = [b \in DOMAIN @ |->
        [i \in 1..Len(@[b]) |-> IF @[b][i] = Uninit THEN fill ELSE @[b][i]]]]

\* last is the latest add_parameter / remove_parameter call and err its
\* outcome (or the exception that ended the program); call is the latest
\* call of any handler (its name and the node it was made on)
Commit(s, edit, what) ==
    \E r \in {Collect(s)} : \E fill \in Fill : \E t \in {Resolve(r, fill)} :
         /\ parent' = t.parent /\ pindex' = t.pindex /\ params' = t.params
         /\ size' = t.size /\ arr' = t.arr /\ heap' = t.heap
         /\ slices' = t.slices /\ rattr' = t.rattr /\ rdata' = t.rdata
         /\ fixes' = t.fixes /\ obs' = t.obs /\ added' = t.added
         /\ err' = IF t.err = "ok" /\ what.op \notin {"add", "remove"} THEN err ELSE t.err
         /\ nops' = nops + 1
         /\ last' = edit
         /\ call' = what
         /\ log' = t.log
         /\ ret' = t.ret
         /\ cached_inputs' = t.cached_inputs
         /\ cached_outputs' = t.cached_outputs
         /\ inputs_changed' = t.inputs_changed
         /\ name' = t.name
         /\ seen' = t.seen

\* an uncaught exception from the middle of a handler ends the program; the
\* two precondition errors are reported to the caller, who goes on
Running == err \in {"ok", "HierarchyError", "RuntimeError"} /\ nops < MaxOps

Init ==
    /\ parent = [n \in Nodes |-> None]
    /\ pindex = [n \in Nodes |-> NoIndex]
    /\ params = [n \in Nodes |-> <<>>]
    /\ size = [n \in Nodes |-> IF n \in Leaves THEN Len(LeafVals[n]) ELSE 0]
    /\ arr = [n \in Nodes |-> [buf |-> Ord(n), off |-> 0,
                               len |-> IF n \in Leaves THEN Len(LeafVals[n]) ELSE 0]]
    /\ heap = [k \in 1..Len(NodeSeq) |->
                 IF NodeSeq[k] \in Leaves THEN LeafVals[NodeSeq[k]] ELSE <<>>]
    /\ slices = [n \in Nodes |-> <<>>]
    /\ rattr = [w \in Regs |-> [n \in Nodes |-> OwnReg(n)]]
    /\ rdata = [w \in Regs |-> [n \in Nodes |-> EmptyReg]]
    /\ fixes = [n \in Nodes |-> <<>>]
    /\ obs = [n \in Nodes |-> IF n \in Containers
                                THEN <<[p |-> HookPriority, o |-> n, c |-> Hook, t |-> 0]>>
                                ELSE <<>>]
    /\ added = [n \in Nodes |-> {}]
    /\ err = "ok"
    /\ nops = 0
    /\ last = [op |-> "init", c |-> None, n |-> None, index |-> NoIndex]
    /\ call = [op |-> "init", n |-> None]
    /\ log = <<>>
    /\ ret = {}
    /\ cached_inputs = <<>>
    /\ cached_outputs = <<>>
    /\ inputs_changed = <<>>
    /\ name = [n \in Nodes |-> n]
    /\ seen = [n \in Nodes |-> <<>>]

\* the objects as constructed, as a state record
Fresh ==
    [parent |-> [n \in Nodes |-> None],
     pindex |-> [n \in Nodes |-> NoIndex],
     params |-> [n \in Nodes |-> <<>>],
     size |-> [n \in Nodes |-> IF n \in Leaves THEN Len(LeafVals[n]) ELSE 0],
     arr |-> [n \in Nodes |-> [buf |-> Ord(n), off |-> 0,
                               len |-> IF n \in Leaves THEN Len(LeafVals[n]) ELSE 0]],
     heap |-> [k \in 1..Len(NodeSeq) |->
                 IF NodeSeq[k] \in Leaves THEN LeafVals[NodeSeq[k]] ELSE <<>>],
     slices |-> [n \in Nodes |-> <<>>],
     rattr |-> [w \in Regs |-> [n \in Nodes |-> OwnReg(n)]],
     rdata |-> [w \in Regs |-> [n \in Nodes |-> EmptyReg]],
     fixes |-> [n \in Nodes |-> <<>>],
     obs |-> [n \in Nodes |-> IF n \in Containers
                                THEN <<[p |-> HookPriority, o |-> n, c |-> Hook, t |-> 0]>>
                                ELSE <<>>],
     added |-> [n \in Nodes |-> {}],
     err |-> "ok", log |-> <<>>, ret |-> {},
     cached_inputs |-> <<>>, cached_outputs |-> <<>>, inputs_changed |-> <<>>,
     name |-> [n \in Nodes |-> n], seen |-> [n \in Nodes |-> <<>>]]
\* the composite that the tests' setUp builds: R with the children A and B
Built ==
    Collect(add_parameter(add_parameter(Fresh, "R", "A", NoIndex), "R", "B", NoIndex))
InitBuilt ==
    /\ parent = Built.parent /\ pindex = Built.pindex /\ params = Built.params
    /\ size = Built.size /\ arr = Built.arr /\ heap = Built.heap
    /\ slices = Built.slices /\ rattr = Built.rattr /\ rdata = Built.rdata
    /\ fixes = Built.fixes /\ obs = Built.obs /\ added = Built.added
    /\ err = "ok"
    /\ nops = 0
    /\ last = [op |-> "add", c |-> "R", n |-> "B", index |-> NoIndex]
    /\ call = [op |-> "add", n |-> "R"]
    /\ log = <<>>
    /\ ret = {}
    /\ cached_inputs = <<>>
    /\ cached_outputs = <<>>
    /\ inputs_changed = <<>>
    /\ name = [n \in Nodes |-> n]
    /\ seen = [n \in Nodes |-> <<>>]

AddParameter ==
    /\ Running
    /\ \E c \in Containers, n \in Nodes :
       \E index \in {NoIndex} \cup 0..Len(params[c]) :
          Commit(add_parameter(St, c, n, index),
                 [op |-> "add", c |-> c, n |-> n, index |-> index],
                 [op |-> "add", n |-> c])

RemoveParameter ==
    /\ Running
    /\ \E c \in Containers, n \in Nodes :
          Commit(remove_parameter(St, c, n),
                 [op |-> "remove", c |-> c, n |-> n, index |-> NoIndex],
                 [op |-> "remove", n |-> c])

\* n._param_array_[i] = v : a plain write through n's view of the buffer
WriteArray ==
    /\ Running
    /\ \E n \in Nodes, v \in WriteVals :
       \E i \in 1..arr[n].len :
          Commit([St EXCEPT !.heap[arr[n].buf][arr[n].off + i] = v], last,
                 [op |-> "write", n |-> n])

Constrain ==
    /\ Running
    /\ \E n \in Nodes, t \in Transforms : Commit(constrain(St, n, t), last, [op |-> "constrain", n |-> n])

Fix ==
    /\ Running
    /\ \E n \in Nodes : Commit(constrain_fixed(St, n), last, [op |-> "fix", n |-> n])

SetPrior ==
    /\ Running
    /\ \E n \in Nodes, p \in Priors : Commit(set_prior(St, n, p), last, [op |-> "set_prior", n |-> n])

Unfix ==
    /\ Running
    /\ \E n \in Nodes : Commit(unconstrain_fixed(St, n), last, [op |-> "unfix", n |-> n])

\* n.unconstrain() and n.unconstrain(Logexp())
Unconstrain ==
    /\ Running
    /\ \E n \in Nodes, what \in SUBSET Transforms :
          Commit(unconstrain(St, n, what), last,
                 [op |-> "unconstrain", n |-> n, what |-> what])

\* c._set_params_transformed(p) on a container, with a vector of the length
\* that c._get_params_transformed() returns
SetParams ==
    /\ Running
    /\ \E c \in Containers, v \in FreeVals :
          Commit(set_params_transformed(St, c, Repeat(v, FreeLen(St, c))), last,
                 [op |-> "set_params", n |-> c])

\* c._set_params_transformed(c._get_params_transformed()) on a container
RoundTrip ==
    /\ Running
    /\ \E c \in Containers :
          Commit(round_trip(St, c), last, [op |-> "round_trip", n |-> c])

\* c.randomize() on a container
Randomize ==
    /\ Running
    /\ \E c \in Containers, x \in FreeVals, r \in PriorVals :
          Commit(randomize(St, c, x, r), last, [op |-> "randomize", n |-> c])

\* n[i] = v on a leaf
SetItem ==
    /\ Running
    /\ \E n \in Leaves, v \in WriteVals :
       \E i \in 1..arr[n].len :
          Commit(setitem(St, n, i, v), last, [op |-> "setitem", n |-> n])

\* n.add_observer(o, o.on_change, p)
AddObserver ==
    /\ Running
    /\ \E n \in Nodes, o \in Watchers, p \in ObsPriorities :
          Commit(add_observer(St, n, o, OnChange, p), last,
                 [op |-> "add_observer", n |-> n])

\* n.remove_observer(o, o.on_change)
RemoveObserver ==
    /\ Running
    /\ \E n \in Nodes, o \in Watchers :
          Commit(remove_observer(St, n, o, OnChange), last,
                 [op |-> "remove_observer", n |-> n])

\* n.name = nm
Rename ==
    /\ Running
    /\ \E n \in Renamed, nm \in NewNames :
          Commit(set_name(St, n, nm), last, [op |-> "rename", n |-> n, to |-> nm])

\* cacher(*args)
CachedCall ==
    /\ Running
    /\ \E args \in ArgTuples :
          Commit(cached_call(St, args), last,
                 [op |-> "cached", n |-> None, args |-> args])

\* cacher.reset(obj)
Reset ==
    /\ Running
    /\ Commit(reset(St), last, [op |-> "reset", n |-> None])

\* n.notify_observers(None, m)
NotifyObservers ==
    /\ Running
    /\ \E n \in Nodes, m \in Thresholds :
          Commit(notify_observers(St, n, None, m), last,
                 [op |-> "notify", n |-> n, m |-> m])

Next == AddParameter \/ RemoveParameter \/ WriteArray \/ Constrain \/ Fix \/ SetPrior
           \/ Unfix \/ Unconstrain
           \/ SetParams \/ RoundTrip \/ Randomize \/ SetItem \/ AddObserver
           \/ RemoveObserver \/ NotifyObservers \/ CachedCall \/ Reset \/ Rename
Spec == Init /\ [][Next]_vars

\* structural edits and plain value writes
NextTree == AddParameter \/ RemoveParameter \/ WriteArray
SpecTree == Init /\ [][NextTree]_vars

\* structural edits and the registry operations
NextReg == AddParameter \/ RemoveParameter \/ Constrain \/ Fix \/ SetPrior
SpecReg == Init /\ [][NextReg]_vars

\* structural edits and fixing
NextFix == AddParameter \/ RemoveParameter \/ Fix
SpecFix == Init /\ [][NextFix]_vars

\* structural edits, bulk updates, leaf writes and subscriptions
NextNotify == AddParameter \/ RemoveParameter \/ SetParams \/ SetItem \/ AddObserver
SpecNotify == Init /\ [][NextNotify]_vars

\* structural edits, transforms and the free vector
NextFree == AddParameter \/ RemoveParameter \/ Constrain \/ RoundTrip
SpecFree == Init /\ [][NextFree]_vars

\* structural edits, fixing, transforms and bulk updates on the built composite
NextFrozen == AddParameter \/ RemoveParameter \/ Fix \/ Constrain \/ SetParams \/ Randomize
SpecFrozen == InitBuilt /\ [][NextFrozen]_vars

\* structural edits and everything that edits the constraints
NextCons == AddParameter \/ RemoveParameter \/ Constrain \/ Fix \/ Unfix \/ Unconstrain
SpecCons == Init /\ [][NextCons]_vars

\* the observer lists on their own
NextObs == AddParameter \/ AddObserver \/ RemoveObserver \/ NotifyObservers
SpecObs == Init /\ [][NextObs]_vars

\* the cache over arguments that change
NextCache == AddParameter \/ SetItem \/ SetParams \/ CachedCall \/ Reset
SpecCache == Init /\ [][NextCache]_vars

\* bulk updates of the composite with constraints and observers
NextCascade == Constrain \/ SetParams \/ AddObserver
SpecCascade == InitBuilt /\ [][NextCascade]_vars

\* the name tables
NextNames == AddParameter \/ RemoveParameter \/ Rename
SpecNames == Init /\ [][NextNames]_vars


\* ======================================================================
\* Properties
\* ======================================================================
Vals(n) == ArrVals(heap, arr[n])
\* the flat offset of the i-th child (1-based) of c, from the sizes
Start(c, i) == SumSizes(size, Take(params[c], i - 1))
RECURSIVE ConcatVals(_, _, _)
ConcatVals(h, a, q) ==
    IF q = <<>> THEN <<>> ELSE ArrVals(h, a[Head(q)]) \o ConcatVals(h, a, Tail(q))
Overlap(a, b) == a.buf = b.buf /\ a.off < b.off + b.len /\ b.off < a.off + a.len
Edited == last.op \in {"add", "remove"} /\ err = "ok"
EditStep == nops' = nops + 1 /\ call'.op \in {"add", "remove"}

\* C1: after every add_parameter or remove_parameter that returned, every
\* container's size is the sum of its children's sizes and the recorded
\* slices of its children are contiguous, disjoint and in child-list order.
C1_IndexInvariant ==
    Edited =>
      \A c \in Containers :
         /\ size[c] = SumSizes(size, params[c])
         /\ (Len(params[c]) > 0) =>
               /\ Len(slices[c]) = Len(params[c])
               /\ \A i \in 1..Len(params[c]) : slices[c][i] = Start(c, i)

\* C2: after C.add_parameter(node) returned, node's values are, at every
\* later moment and whatever is written through C or through node, the
\* values of C's buffer in node's offset range.
C2_AliasingAfterAdd ==
    (last.op = "add" /\ err = "ok") =>
      LET off == Start(last.c, pindex[last.n] + 1)
      IN /\ pindex[last.n] >= 0
         /\ off + size[last.n] <= arr[last.c].len
         /\ Vals(last.n) = SubSeq(Vals(last.c), off + 1, off + size[last.n])
C2_Witness ==
    /\ last.op = "add" /\ err = "ok" /\ last.n \in Leaves
    /\ call = [op |-> "write", n |-> last.c]
    /\ nops = 2
    /\ \E i \in 1..size[last.n] : Vals(last.n)[i] \in WriteVals

\* C3: whenever the last edit returned, every node that has a parent views
\* exactly the sub-range of its parent's buffer that its position gives
\* (hence, by the chain of parents, of the root's buffer).
C3_WholeTreeAliasing ==
    Edited =>
      \A n \in Nodes : (parent[n] # None) =>
         /\ arr[n].buf = arr[parent[n]].buf
         /\ arr[n].off = arr[parent[n]].off + Start(parent[n], pindex[n] + 1)
         /\ arr[n].len = size[n]
         /\ arr[n].off + arr[n].len <= arr[parent[n]].off + arr[parent[n]].len

\* C4: an add_parameter / remove_parameter that returns leaves every leaf's
\* values as they were, and the edited container's buffer is the
\* concatenation of its children's values in child-list order.
C4_EditsPreserveValues ==
    [][(EditStep /\ err' = "ok") =>
          /\ \A n \in Leaves : ArrVals(heap', arr'[n]) = ArrVals(heap, arr[n])
          /\ ArrVals(heap', arr'[last'.c]) = ConcatVals(heap', arr', params'[last'.c])]_vars

\* C5: after C.remove_parameter(node) returned, node's values live in a
\* buffer that C does not view, so no write through C reaches them.
C5_DetachedPrivate ==
    (last.op = "remove" /\ err = "ok") => ~Overlap(arr[last.c], arr[last.n])


\* ---------------------------------------------------------- registries
Cons(n) == rattr["constraints"][n]
LocalItems(s, w, n) == Items(s, w, s.rattr[w][n])

\* C6: whenever the last edit returned, every child of a root container
\* has a constraints view on that root's registry whose offset is the sum
\* of the sizes of the siblings before it, and every node without a parent
\* owns its registry (offset 0).
C6_ViewOffsets ==
    Edited =>
      /\ \A n \in Nodes : (parent[n] = None) => (Cons(n).own /\ Cons(n).off = 0)
      /\ \A c \in Containers : (parent[c] = None) =>
            \A i \in 1..Len(params[c]) :
               /\ ~Cons(params[c][i]).own
               /\ Cons(params[c][i]).base = c
               /\ Cons(params[c][i]).off = Start(c, i)

\* C7: an add_parameter / remove_parameter that returns leaves the local
\* index set of every transform on every leaf as it was (entries travel
\* with their node), and afterwards the registry of every root holds, for
\* every transform, exactly the entries of its children at their offsets.
C7_RegistryFollowsNodes ==
    [][(EditStep /\ err' = "ok") =>
        LET t == [St EXCEPT !.rattr = rattr', !.rdata = rdata']
        IN /\ \A n \in Leaves : LocalItems(t, "constraints", n) = LocalItems(St, "constraints", n)
           /\ \A c \in Containers : (parent'[c] = None) =>
                \A p \in Props :
                   rdata'["constraints"][c][p] =
                      UNION {Shifted(LocalItems(t, "constraints", params'[c][i])[p],
                                     SumSizes(size', Take(params'[c], i - 1)))
                             : i \in 1..Len(params'[c])}]_vars

\* C8: whenever the last call returned, a node without a parent has no
\* fixed mask exactly when its registry has no fixed entry, and otherwise a
\* mask of length size with FIXED exactly at the fixed positions; a node
\* with a parent has no mask.
MaskOf(n) ==
    LET fx == Indices(St, "constraints", Cons(n), fixedT)
    IN IF fx = {} THEN <<>>
       ELSE [i \in 1..size[n] |-> IF (i - 1) \in fx THEN FIXED ELSE UNFIXED]
C8_FixedMask ==
    (err = "ok") =>
      \A n \in Nodes : fixes[n] = IF parent[n] = None THEN MaskOf(n) ELSE <<>>

\* C9: after C.remove_parameter(node) returned, node owns its prior
\* registry, C's prior registry holds no entry of node any more, and it
\* holds the entries of C's remaining children at their new offsets.
C9_PriorsOnRemoval ==
    [][(EditStep /\ call'.op = "remove" /\ err' = "ok") =>
        LET t == [St EXCEPT !.rattr = rattr', !.rdata = rdata']
            c == last'.c
        IN /\ rattr'["priors"][last'.n].own
           /\ LocalItems(t, "priors", last'.n) = LocalItems(St, "priors", last'.n)
           /\ \A n \in Leaves : LocalItems(t, "priors", n) = LocalItems(St, "priors", n)
           /\ (parent'[c] = None) =>
                \A p \in Props :
                   rdata'["priors"][rattr'["priors"][c].base][p] =
                      UNION {Shifted(LocalItems(t, "priors", params'[c][i])[p],
                                     SumSizes(size', Take(params'[c], i - 1)))
                             : i \in 1..Len(params'[c])}]_vars

\* C10: C.add_parameter(node) with node an ancestor of C raises
\* HierarchyError and changes nothing, so that afterwards no node is on its
\* own parent chain.
TreeUnchanged ==
    /\ parent' = parent /\ pindex' = pindex /\ params' = params /\ size' = size
    /\ arr' = arr /\ heap' = heap /\ rattr' = rattr /\ rdata' = rdata
    /\ fixes' = fixes /\ obs' = obs /\ added' = added
C10_CycleCheck ==
    [][(EditStep /\ call'.op = "add" /\ last'.n \in Ancestors(St, last'.c)) =>
          /\ err' = "HierarchyError"
          /\ TreeUnchanged
          /\ \A n \in Nodes : ~ParentCyclic([St EXCEPT !.parent = parent'], n)]_vars


\* C11: C.add_parameter(node) with node a descendant of C that is not a
\* direct child raises HierarchyError and leaves child lists, parents,
\* sizes, buffers, registries, masks and observer lists as they were.
C11_GrandchildRejected ==
    [][(EditStep /\ call'.op = "add"
          /\ last'.n \in Below(St, last'.c) \ Children(St, last'.c)) =>
          (err' = "HierarchyError" /\ TreeUnchanged /\ slices' = slices)]_vars
C11_Witness ==
    /\ last.op = "add" /\ err = "HierarchyError"
    /\ parent[last.n] \in Containers /\ parent[parent[last.n]] = last.c
    /\ \E p \in Props : Indices(St, "constraints", Cons(last.n), p) # {}


\* C12: C.add_parameter(node) without index, node already a direct child of
\* C, fails with an error and changes nothing (child list, size, registries,
\* observer lists, and everything else).
C12_DuplicateAdd ==
    [][(EditStep /\ call'.op = "add" /\ last'.index = NoIndex
          /\ InSeq(last'.n, params[last'.c])) =>
          (err' = "RuntimeError" /\ TreeUnchanged /\ slices' = slices)]_vars
C12_Witness ==
    /\ last.op = "add" /\ last.index = NoIndex /\ err = "RuntimeError"
    /\ InSeq(last.n, params[last.c]) /\ Len(params[last.c]) = 2
    /\ obs[last.n] # <<>>

\* C13: C.remove_parameter(node) with node not a direct child of C (a deeper
\* descendant, a node of another tree, a parentless node) fails with an
\* error and changes nothing.
C13_ForeignRemove ==
    [][(EditStep /\ call'.op = "remove" /\ ~InSeq(last'.n, params[last'.c])) =>
          (err' = "RuntimeError" /\ TreeUnchanged /\ slices' = slices)]_vars
C13_Witness ==
    /\ last.op = "remove" /\ err = "RuntimeError"
    /\ last.n \in Below(St, last.c) \ Children(St, last.c)


\* C14: C.add_parameter(node), node having a parent P that is neither C nor
\* a descendant of C (and node being neither C nor an ancestor of C, the
\* adds that C10 is about), returns with node in C's child list and in no
\* other child list, node's parent C, P's size smaller by node.size and C's
\* size larger by node.size.
Reparenting ==
    /\ EditStep /\ call'.op = "add"
    /\ parent[last'.n] # None
    /\ parent[last'.n] # last'.c
    /\ parent[last'.n] \notin Below(St, last'.c)
    /\ last'.n # last'.c
    /\ last'.n \notin Ancestors(St, last'.c)
C14_Reparenting ==
    [][Reparenting =>
          /\ err' = "ok"
          /\ InSeq(last'.n, params'[last'.c])
          /\ \A x \in Containers \ {last'.c} : ~InSeq(last'.n, params'[x])
          /\ parent'[last'.n] = last'.c
          /\ size'[parent[last'.n]] = size[parent[last'.n]] - size[last'.n]
          /\ size'[last'.c] = size[last'.c] + size[last'.n]]_vars


\* C15: whenever the last edit returned, the child at position i of every
\* container P has parent P and parent index i, and a node that is in no
\* child list has neither parent nor parent index.
C15_ParentBookkeeping ==
    Edited =>
      /\ \A P \in Containers : \A i \in 1..Len(params[P]) :
            parent[params[P][i]] = P /\ pindex[params[P][i]] = i - 1
      /\ \A n \in Nodes : (\A P \in Containers : ~InSeq(n, params[P])) =>
            (parent[n] = None /\ pindex[n] = NoIndex)
C15_Witness ==
    /\ last.op = "remove" /\ err = "ok"
    /\ parent[last.n] = None /\ pindex[last.n] = NoIndex
    /\ Len(params[last.c]) = 1 /\ pindex[params[last.c][1]] = 0
    /\ \A P \in Containers : ~InSeq(last.n, params[P])


\* the positions of the log where container c's parameters_changed ran
HookRuns(c) == {i \in 1..Len(log) : log[i].c = Hook /\ log[i].o = c}
\* the positions of the log where notify_observers was entered on node n
Notified(n) == {i \in 1..Len(log) : log[i].c = NotifyMark /\ log[i].at = n}

\* C16: an add_parameter call that returns has run the container's
\* parameters_changed hook exactly once, as the last thing that happened
\* in the call.
C16_HookOnAdd ==
    (call.op = "add" /\ err = "ok") =>
        (Cardinality(HookRuns(call.n)) = 1 /\ Len(log) \in HookRuns(call.n))


\* the latest call was not ended by an exception
Returned == err \in {"ok", "HierarchyError", "RuntimeError"}
\* the container of the latest call, its descendants and its ancestors
Related(c) == {c} \cup Below(St, c) \cup Ancestors(St, c)

WatcherRuns(n, w) ==
    {i \in 1..Len(log) : log[i].at = n /\ log[i].o = w /\ log[i].c = OnChange}
\* the priorities at which w's callback is subscribed to n
Subscribed(n, w) ==
    {obs[n][i].p : i \in {j \in 1..Len(obs[n]) : obs[n][j].o = w /\ obs[n][j].c = OnChange}}
\* the latest call wrote a value of leaf n, n and w are children of the
\* same container and w is subscribed to n
SiblingWatch(n, w) ==
    /\ call.op = "setitem" /\ call.n = n /\ Returned
    /\ w # n /\ parent[n] \in Containers /\ parent[w] = parent[n]
    /\ InSeq(n, params[parent[n]]) /\ InSeq(w, params[parent[n]])
    /\ Subscribed(n, w) # {}
WatcherFirst(n, w) ==
    /\ WatcherRuns(n, w) # {} /\ HookRuns(parent[n]) # {}
    /\ \A i \in WatcherRuns(n, w) : \A j \in HookRuns(parent[n]) : i < j

\* C18 (as stated): with A and B children of container C and B subscribed
\* to A, a write of a value of A runs B's callback strictly before C's
\* parameters_changed.
C18_WatcherBeforeHook ==
    \A n \in Leaves, w \in Watchers : SiblingWatch(n, w) => WatcherFirst(n, w)
\* C18 (amended): the same, for subscriptions of B at a priority above
\* minus infinity, the priority of the pass-through subscription.
C18_FiniteWatcherBeforeHook ==
    \A n \in Leaves, w \in Watchers :
        (SiblingWatch(n, w) /\ \A p \in Subscribed(n, w) : p > NegInf)
            => WatcherFirst(n, w)
C18_Witness ==
    /\ SiblingWatch("A", "B") /\ Subscribed("A", "B") = {0}
    /\ Len(obs["A"]) = 2 /\ obs["A"][1].t > obs["A"][2].t
    /\ WatcherFirst("A", "B")


\* non-increasing priorities, equal priorities in order of registration
Sorted(q) ==
    \A i, j \in 1..Len(q) : i < j =>
        (q[i].p >= q[j].p /\ (q[i].p = q[j].p => q[i].t < q[j].t))
\* the callbacks that the latest call invoked from the list of node n
LogAt(n) == SelectSeq(log, LAMBDA e : e.at = n /\ e.c # NotifyMark)
SameEntry(e, x) == e.o = x.o /\ e.c = x.c /\ e.p = x.p
\* every entry of n's list was invoked once, in list order
InListOrder(n) ==
    /\ Len(LogAt(n)) = Len(obs[n])
    /\ \A i \in 1..Len(obs[n]) : SameEntry(LogAt(n)[i], obs[n][i])

\* C19: every observer list is sorted by non-increasing priority with equal
\* priorities in order of registration, and a notify_observers call without
\* min_priority has invoked every entry of the node's list once, in list
\* order.
C19_ObserverOrder ==
    /\ \A n \in Nodes : Sorted(obs[n])
    /\ (call.op = "notify" /\ Returned /\ call.m = NoMin) => InListOrder(call.n)
C19_Witness ==
    /\ call.op = "notify" /\ Returned /\ call.m = NoMin
    /\ Len(obs[call.n]) = 3
    /\ obs[call.n][1].p > obs[call.n][2].p
    /\ obs[call.n][2].p = obs[call.n][3].p
    /\ obs[call.n][2].c = PassThrough /\ obs[call.n][3].c = OnChange
    /\ InListOrder(call.n)


\* the entries of a list with a priority strictly greater than m
Above(q, m) == SelectSeq(q, LAMBDA e : e.p > m)

\* C20: a notify_observers call with min_priority m on node n has invoked
\* exactly the entries of n's list whose priority is strictly greater than
\* m, each once and in list order, and nothing else: no entry of priority
\* m or less, and (the pass-through entry having priority minus infinity)
\* no observer of the parent.
C20_PriorityThreshold ==
    (call.op = "notify" /\ Returned /\ call.m # NoMin) =>
        /\ Len(LogAt(call.n)) = Len(Above(obs[call.n], call.m))
        /\ \A i \in 1..Len(LogAt(call.n)) :
              SameEntry(LogAt(call.n)[i], Above(obs[call.n], call.m)[i])
        /\ \A i \in 1..Len(log) : log[i].at = call.n /\ log[i].c # PassThrough
C20_Witness ==
    /\ call.op = "notify" /\ Returned /\ call.m = NegInf
    /\ parent[call.n] \in Containers
    /\ Len(obs[call.n]) = 3
    /\ obs[call.n][2].c = PassThrough /\ obs[call.n][3].p = NegInf
    /\ Len(LogAt(call.n)) = 1
    /\ Notified(parent[call.n]) = {}


\* container c has no fixed entry: no mask and no fixed position
NoFixed(c) == ~has_fixes(St, c) /\ Indices(St, "constraints", Cons(c), fixedT) = {}

\* C21: on a container without fixed entries,
\* _set_params_transformed(_get_params_transformed()) returns and leaves
\* the values of every leaf as they were.
C21_RoundTrip ==
    [][(nops' = nops + 1 /\ call'.op = "round_trip" /\ NoFixed(call'.n)) =>
          /\ err' = err
          /\ \A n \in Leaves : ArrVals(heap', arr'[n]) = Vals(n)]_vars


\* the fixed positions of node n (in n's own coordinates) that n's array has
FixedAt(n) == {i \in Indices(St, "constraints", Cons(n), fixedT) : i < arr[n].len}

\* C22: a _set_params_transformed or randomize call on a root leaves the
\* value at every fixed position of every node of the root's tree as it was
\* (so nothing is written there and no forward map is applied there).
C22_FixedFrozen ==
    [][(nops' = nops + 1 /\ call'.op \in {"set_params", "randomize"}
          /\ parent[call'.n] = None) =>
          \A n \in {call'.n} \cup Below(St, call'.n) : \A i \in FixedAt(n) :
              ArrVals(heap', arr'[n])[i + 1] = Vals(n)[i + 1]]_vars


\* the fixed positions and the root's mask are the same in states a and b
SameFixed(a, b, n) ==
    /\ b.fixes[highest_parent(b, n)] = a.fixes[highest_parent(a, n)]
    /\ b.rdata["constraints"] = a.rdata["constraints"]
\* n.unfix(); n.fix() returns and gives the same mask and the same fixed
\* positions as the state it started from
RefixSame(one, n) ==
    Ok(one) => /\ Ok(constrain_fixed(unconstrain_fixed(one, n), n))
               /\ SameFixed(one, constrain_fixed(unconstrain_fixed(one, n), n), n)

\* C23: from every state in which the program runs, n.fix(); n.unfix();
\* n.fix() returns and yields the same fixed mask of the root and the same
\* fixed positions as a single n.fix().
C23_RefixIdempotent ==
    (err \in {"ok", "HierarchyError", "RuntimeError"}) =>
        \A n \in Nodes : RefixSame(constrain_fixed(St, n), n)


\* the positions of node n (in n's coordinates) governed by a property of what
Governed(n, what) == UNION {Indices(St, "constraints", Cons(n), t) : t \in what}

\* C24: a call n.unconstrain(T1, ..., Tn) with at least one transform named
\* returns the positions of n governed by a named transform (none when
\* no named transform was applied), removes exactly these from the named
\* transforms and leaves the positions of every other property as they were.
C24_UnconstrainNamed ==
    [][(nops' = nops + 1 /\ call'.op = "unconstrain" /\ call'.what # {}) =>
          /\ err' = err
          /\ ret' = Governed(call'.n, call'.what)
          /\ \A m \in Nodes : \A t \in Props :
                Indices([rdata |-> rdata'], "constraints", rattr'["constraints"][m], t)
                  = IF m = call'.n /\ t \in call'.what THEN {}
                    ELSE Indices(St, "constraints", Cons(m), t)]_vars


\* the positions of property t of node m after the step
IndicesAfter(m, t) ==
    Indices([rdata |-> rdata'], "constraints", rattr'["constraints"][m], t)
\* the nodes whose positions are no positions of n: not n, not below n,
\* not above n
Apart(n) == Nodes \ ({n} \cup Below(St, n) \cup Ancestors(St, n))

\* C25: a call n.constrain(T) returns with T registered over exactly the
\* positions 0 .. size-1 of n and no other property left on them, and with
\* the positions of every property of the nodes apart from n as they were.
C25_ConstrainReplaces ==
    [][(nops' = nops + 1 /\ call'.op = "constrain") =>
          /\ err' = err
          /\ \A t \in Props :
                IndicesAfter(call'.n, t)
                  = IF t \in Transforms THEN 0..(size[call'.n] - 1) ELSE {}
          /\ \A m \in Apart(call'.n) : \A t \in Props :
                IndicesAfter(m, t) = Indices(St, "constraints", Cons(m), t)]_vars

\* ------------------------------------------------------------------ C26
\* the wrapped function ran during the last call
Computed(l) == \E k \in 1..Len(l) : l[k].c = Operation
\* this step is a call of the cache with the arguments of the call before it
Repeated ==
    /\ nops' = nops + 1 /\ call.op = "cached" /\ call'.op = "cached"
    /\ call'.args = call.args

\* C26: a call of the cache that directly follows a call with the same
\* argument objects does not invoke the wrapped function and returns the
\* result of the first call.
C26_CacheHit ==
    [][Repeated => ~Computed(log') /\ ret' = ret /\ err' = err]_vars

\* C26 (amended): the same, for calls whose arguments outside the ignored
\* positions are None or Observable.
C26_ObservableCacheHit ==
    [][(Repeated /\ \A a \in observable_args(call'.args) : isObservable(a))
         => ~Computed(log') /\ ret' = ret /\ err' = err]_vars

\* two calls with the same observable argument, the second one answered
\* from the cache with the values the first one computed
C26_Witness ==
    /\ nops = 2 /\ call.op = "cached" /\ call.args = <<"A", None>>
    /\ ~Computed(log) /\ ret = <<LeafVals["A"], <<>> >>
    /\ Len(cached_inputs) = 1

\* ------------------------------------------------------------------ C27
\* the arguments of a call that hold the array n or a container above it
Holding(args, n) ==
    {j \in 1..Len(args) : args[j] = n \/ (isObservable(args[j]) /\ n \in Below(St, args[j]))}
\* this step is a call of the cache with arguments it holds an entry for,
\* directly after an item assignment to one of them or to a child of one
CalledAfterWrite ==
    /\ nops' = nops + 1 /\ call.op = "setitem" /\ call'.op = "cached"
    /\ Hits(St, call'.args) # {}
    /\ Holding(call'.args, call.n) # {}

\* C27: a call of the cache that follows an item assignment to one of its
\* arguments, or to a child of a container argument, made after the entry
\* for these arguments was stored, invokes the wrapped function again and
\* returns the result for the current values.
C27_Invalidation ==
    [][CalledAfterWrite =>
          /\ Computed(log')
          /\ ret' = operation([heap |-> heap', arr |-> arr'], call'.args)]_vars

\* ------------------------------------------------------------------ C28
\* this step is a call of the cache with arguments it caches
Cacheable(args) == \A a \in observable_args(args) : isObservable(a)
CacheStep == nops' = nops + 1 /\ call'.op = "cached" /\ Cacheable(call'.args)

\* C28: the cache never holds more than Limit entries and its three lists
\* have the same length; a call with arguments that have no entry, made at
\* full capacity, drops the entry stored first and appends the new one, and
\* a hit leaves the entries and their order as they are.
C28_Capacity ==
    [][/\ Len(cached_inputs') <= Limit
       /\ Len(cached_outputs') = Len(cached_inputs')
       /\ Len(inputs_changed') = Len(cached_inputs')
       /\ (CacheStep /\ Hits(St, call'.args) = {} /\ Len(cached_inputs) = Limit)
             => cached_inputs' = Append(Tail(cached_inputs), call'.args)
       /\ (CacheStep /\ Hits(St, call'.args) # {})
             => cached_inputs' = cached_inputs]_vars

\* ------------------------------------------------------------------ C29
\* the cache's callback is in the observer list q
Registered(q) == \E k \in 1..Len(q) : q[k].o = Cache /\ q[k].c = OnCacheChanged
\* this step is a call that evicts the entry stored first
Evicting == CacheStep /\ Hits(St, call'.args) = {} /\ Len(cached_inputs) = Limit
Elements(q) == {q[j] : j \in 1..Len(q)}

\* C29: a call that evicts an entry returns normally and leaves the cache's
\* callback on none of the evicted entry's arguments (other than those the
\* new entry subscribes); reset returns normally and leaves the cache's
\* callback on no object.
C29_Deregistration ==
    [][/\ Evicting =>
            /\ err' = err
            /\ \A a \in (Elements(Head(cached_inputs)) \cap Nodes)
                            \ observable_args(call'.args) : ~Registered(obs'[a])
       /\ (nops' = nops + 1 /\ call'.op = "reset") =>
            /\ err' = err
            /\ \A n \in Nodes : ~Registered(obs'[n])]_vars

\* ------------------------------------------------------------------ C30
\* the names the table of container c has an entry for
Keys(tab) == {e[1] : e \in tab}
\* this step renames a child to a name that is new to its parent: no key of
\* the parent's table, no attribute of the parent, not the old name
RenameStep ==
    /\ nops' = nops + 1 /\ call'.op = "rename" /\ has_parent(St, call'.n)
    /\ adjust_name_for_printing(call'.to) \notin
          Keys(added[parent[call'.n]]) \cup Reserved
              \cup {adjust_name_for_printing(name[call'.n])}
\* the entries of a table that stand for other nodes than n
Others(tab, n) == {e \in tab : e[2] # n}

\* C30: after a child is renamed to a new name, the table of its parent
\* maps the new name to the child and has no entry for the old name, and
\* the entries of the other children are what they were.
C30_RenameRekeys ==
    [][RenameStep =>
          /\ err' = err
          /\ <<adjust_name_for_printing(call'.to), call'.n>> \in added'[parent[call'.n]]
          /\ adjust_name_for_printing(name[call'.n]) \notin Keys(added'[parent[call'.n]])
          /\ Others(added'[parent[call'.n]], call'.n)
                = Others(added[parent[call'.n]], call'.n)]_vars

\* ------------------------------------------------------------------ C31
\* this step is C.add_parameter(node, index) with node a child of C
MoveStep ==
    /\ EditStep /\ call'.op = "add" /\ last'.index # NoIndex
    /\ InSeq(last'.n, params[last'.c])
\* the state after the step, as far as the registries go
After == [St EXCEPT !.rattr = rattr', !.rdata = rdata']
\* the mask the constraints of container c ask for after the step
MaskAfter(c) ==
    LET fx == Indices(After, "constraints", rattr'["constraints"][c], fixedT)
    IN IF fx = {} THEN <<>>
       ELSE [i \in 1..size'[c] |-> IF (i - 1) \in fx THEN FIXED ELSE UNFIXED]

\* C31: C.add_parameter(node, index) with node a direct child of C returns
\* with node at position index, C's size and set of children as before,
\* the values of every child as before, and the constraint entries and the
\* fixed mask of C those of its children at their new offsets.
C31_MoveChild ==
    [][MoveStep =>
        /\ err' = "ok"
        /\ size'[last'.c] = size[last'.c]
        /\ Children([params |-> params'], last'.c) = Children(St, last'.c)
        /\ Len(params'[last'.c]) = Len(params[last'.c])
        /\ params'[last'.c][Min({last'.index + 1, Len(params[last'.c])})] = last'.n
        /\ \A n \in Children(St, last'.c) : ArrVals(heap', arr'[n]) = Vals(n)
        /\ \A n \in Children(St, last'.c) :
               LocalItems(After, "constraints", n) = LocalItems(St, "constraints", n)
        /\ \A p \in Props :
               Indices(After, "constraints", rattr'["constraints"][last'.c], p) =
                  UNION {Shifted(LocalItems(After, "constraints", params'[last'.c][i])[p],
                                 SumSizes(size', Take(params'[last'.c], i - 1)))
                         : i \in 1..Len(params'[last'.c])}
        /\ (parent'[last'.c] = None) => fixes'[last'.c] = MaskAfter(last'.c)]_vars

\* ------------------------------------------------------------------ C32
\* this step is D.remove_parameter(node), node a child of D, D with a parent
NestedRemove ==
    /\ EditStep /\ call'.op = "remove" /\ InSeq(last'.n, params[last'.c])
    /\ has_parent(St, last'.c)
\* the tree after the step
TreeAfter == [parent |-> parent', params |-> params']
StartAfter(c, i) == SumSizes(size', Take(params'[c], i - 1))
\* node m views the range of its parent's buffer that its position gives
AliasedAfter(m) ==
    /\ arr'[m].buf = arr'[parent'[m]].buf
    /\ arr'[m].off = arr'[parent'[m]].off + StartAfter(parent'[m], pindex'[m] + 1)
    /\ arr'[m].len = size'[m]
    /\ arr'[m].off + arr'[m].len <= arr'[parent'[m]].off + arr'[parent'[m]].len
\* the constraints view of container a holds the entries of its children
RegistryAfter(a) ==
    \A p \in Props :
       Indices(After, "constraints", rattr'["constraints"][a], p) =
          UNION {Shifted(LocalItems(After, "constraints", params'[a][i])[p],
                         StartAfter(a, i)) : i \in 1..Len(params'[a])}

\* C32: D.remove_parameter(node) on a container D with ancestors returns
\* with every node below D's root viewing its parent's buffer at the offset
\* of its position, and with the constraints view of every ancestor of D
\* and the fixed mask of the root describing the children that are left.
C32_RemovalPropagates ==
    [][NestedRemove =>
        /\ err' = "ok"
        /\ \A m \in Below(TreeAfter, highest_parent(TreeAfter, last'.c)) :
               AliasedAfter(m)
        /\ \A a \in Ancestors(TreeAfter, last'.c) : RegistryAfter(a)
        /\ fixes'[highest_parent(TreeAfter, last'.c)]
               = MaskAfter(highest_parent(TreeAfter, last'.c))]_vars

\* ------------------------------------------------------------------ C33
\* the positions of the log where a callable of an observer of node n ran
RunsAt(n) == {i \in Ran(log) : log[i].at = n}
\* the values of node n now are those it had when the first callable ran
\* (cells nothing was written to read as one of the fill values)
SeenFinal(n) ==
    /\ Len(seen[n]) = Len(Vals(n))
    /\ \A i \in 1..Len(seen[n]) : seen[n][i] \in {Vals(n)[i], Uninit}

\* C33: a _set_params_transformed call on container C that returns has run
\* every callable of an observer of a descendant of C before every callable
\* of an observer of C, and the first callable that ran found the values of
\* C and of its descendants as the call leaves them.
C33_CascadeOrder ==
    (call.op = "set_params" /\ Returned) =>
       /\ \A n \in Below(St, call.n) :
             \A i \in RunsAt(n) : \A j \in RunsAt(call.n) : i < j
       /\ (Ran(log) # {}) =>
             \A n \in {call.n} \cup Below(St, call.n) : SeenFinal(n)

\* a bulk update of a container that wrote a transformed value to a
\* constrained leaf, ran a callable of an observer of that leaf and then one
\* of the container
C33_Witness ==
    /\ call.op = "set_params" /\ Returned
    /\ \E n \in Leaves \cap Below(St, call.n) :
          /\ RunsAt(n) # {} /\ RunsAt(call.n) # {}
          /\ Indices(St, "constraints", Cons(n), "Logexp") # {}
          /\ \E i \in 1..Len(Vals(n)) : \E v \in FreeVals : Vals(n)[i] = f(v)

\* ------------------------------------------------------------------ C34
\* the callables of observers of node n that ran, the forwarding to the
\* parent left out; all of them, and those registered above priority p
OwnRuns(n) == {i \in RunsAt(n) : log[i].c # PassThrough}
OwnRunsAbove(n, p) == {i \in OwnRuns(n) : log[i].p > p}
\* node n was notified once, the nodes of S once each and from the bottom
\* up, no other node at all, and runs(m) of every node m of the chain came
\* before runs(a) of every node a above m
BottomUp(n, runs(_)) ==
    /\ \A m \in {n} \cup Ancestors(St, n) : Cardinality(Notified(m)) = 1
    /\ \A m \in Nodes \ ({n} \cup Ancestors(St, n)) : Notified(m) = {}
    /\ \A m \in {n} \cup Ancestors(St, n) : \A a \in Ancestors(St, m) :
          /\ \A i \in Notified(m) : \A j \in Notified(a) : i < j
          /\ \A i \in runs(m) : \A j \in runs(a) : i < j

\* C34 (as stated): an item assignment on a leaf that returned has notified
\* the leaf and each of its ancestors exactly once, from the leaf up to the
\* root, and has run the callables of the observers of every node of that
\* chain before those of the nodes above it.
C34_WriteCascade ==
    (call.op = "setitem" /\ Returned) => BottomUp(call.n, OwnRuns)

\* C34 (amended): the same, for the observers registered at a priority
\* above minus infinity, the priority of the forwarding to the parent.
C34_FiniteWriteCascade ==
    (call.op = "setitem" /\ Returned) =>
        BottomUp(call.n, LAMBDA m : OwnRunsAbove(m, NegInf))

\* a write on a leaf two levels below its root, with an observer of the
\* leaf and the hooks of both containers run in that order
C34_Witness ==
    /\ call.op = "setitem" /\ Returned
    /\ Cardinality(Ancestors(St, call.n)) = 2
    /\ OwnRunsAbove(call.n, NegInf) # {}
    /\ \A a \in Ancestors(St, call.n) : HookRuns(a) # {}

\* ------------------------------------------------------------------ C35
\* the Observable arguments of a cached tuple outside the ignored positions
Watched(args) == {a \in observable_args(args) : isObservable(a)}

\* C35: every entry of the cache has the cache's callback registered on
\* each of its Observable arguments, whatever calls, evictions and writes
\* came before.
C35_EntriesSubscribed ==
    \A i \in 1..Len(cached_inputs) :
        \A a \in Watched(cached_inputs[i]) : Registered(obs[a])

\* ------------------------------------------------------------------ C36
\* the transforms of a constraints registry, the fixed marker among them
Markers == Transforms \cup {"__fixed__"}

\* C36: in the constraints registry of every node no flat position is in
\* the index sets of two transforms, the fixed marker counting as one.
C36_OneTransform ==
    \A b \in Nodes : \A t \in Markers : \A u \in Markers \ {t} :
        rdata.constraints[b][t] \cap rdata.constraints[b][u] = {}

\* ------------------------------------------------------------------ C37
\* the pass-through entries of container c in the observer list of node n
PassThroughs(n, c) ==
    {k \in 1..Len(obs[n]) : obs[n][k].o = c /\ obs[n][k].c = PassThrough}

\* C37: whenever the last call returned, the observer list of every node
\* holds exactly one pass-through entry of its current parent, at priority
\* minus infinity, and none of any other container.
C37_PassThroughMatchesTree ==
    Returned =>
      \A n \in Nodes : \A c \in Nodes :
        /\ Cardinality(PassThroughs(n, c)) = IF parent[n] = c THEN 1 ELSE 0
        /\ \A k \in PassThroughs(n, c) : obs[n][k].p = NegInf

\* a child removed from a container that keeps another child: the removed
\* node has no pass-through entry left, the remaining one has its parent's
C37_Witness ==
    /\ call.op = "remove" /\ err = "ok"
    /\ parent[last.n] = None
    /\ \A c \in Nodes : PassThroughs(last.n, c) = {}
    /\ Len(params[last.c]) = 1
    /\ Cardinality(PassThroughs(params[last.c][1], last.c)) = 1

\* ------------------------------------------------------------------ C38
\* C38: whenever the last add_parameter or remove_parameter returned, every
\* name in the table of a container stands for one of its current children
\* (so the node just removed is not resolved by its name any more).
C38_NamesMatchChildren ==
    Edited =>
      \A c \in Nodes : \A e \in added[c] : InSeq(e[2], params[c])

\* ------------------------------------------------------------------ C39
\* C39: whenever the last add_parameter or remove_parameter returned, the
\* value buffer of every container has as many entries as the container's
\* size (the gradient buffer is allocated with it, at the same length).
C39_BufferLength ==
    Edited => \A c \in Containers : arr[c].len = size[c]

\* ------------------------------------------------------------------ C40
\* C40: whenever the last call returned, _get_params_transformed() of every
\* node, root or not, returns a vector, and its length is
\* _size_transformed(), the node's size minus the number of its fixed
\* entries.
C40_FreeVectorLength ==
    Returned =>
      \A n \in Nodes :
        /\ GetOK(St, n)
        /\ Len(get_params_transformed(St, n)) = size_transformed(St, n)
====
